---- MODULE Spec2Model ----
(***************************************************************************)
(* Model of the distribution core of rush: mainserver/core.py, CoreServer. *)
(* The state is CoreServer's maps; there is one action per event callback  *)
(* (conn_handler, requests_handler, disconn_handler) and one for the user  *)
(* API send_update.  The worker side of a connection is the environment:   *)
(* it puts length-framed messages on the wire, and the bytes are read by   *)
(* requests_handler in chunks of any size the socket may return.           *)
(***************************************************************************)
EXTENDS Integers, Sequences, FiniteSets, TLC

\* ------------------------------------------------------------------ bounds
\* receive_block_size is chosen in 1..MaxBlock
MaxBlock == 2
\* a worker of kind "any" sends its next frame when at most MaxBacklogAny
\* bytes are unread, a worker of kind "ok" when at most MaxBacklogOk are
MaxBacklogAny == 1
MaxBacklogOk == 0
\* payloads a worker has sent that the server has not completed yet
MaxPending == 2

\* -------------------------------------------------------------- constants
HEARTBEAT == 1
\* the unset load / unset filter of Handler(conn, None)
NoLoad == -1
NoFilter == <<>>
\* INITIAL_BYTES_SEQUENCE, b'\x69\x04\x02\x00'
INITIAL_BYTES_SEQUENCE == <<105, 4, 2, 0>>
\* the acknowledgement byte b'\x01' of handshake step 3
ACK == <<1>>

\* the connections (socket objects) of a run; a socket object is never reused
Conns == {"A", "B"}

\* the reply to the magic bytes that the spec's example sends back wrongly
REVERSED_BYTES == <<0, 2, 4, 105>>

\* What a worker may send as its n-th message (n counts from 0).  A worker
\* of kind "ok" follows the protocol: the three frames of the handshake, then
\* heartbeats and application frames.  A worker of kind "any" may also send
\* a wrong frame at every step of the handshake and frames too short to be
\* classified.  A worker of kind "raw" follows the handshake as it is
\* documented: it sends the magic bytes and the acknowledgement byte as they
\* are, without a length prefix, and then waits for the name of the server.
WorkerChoices(kind, n) ==
  CASE kind = "raw" ->
         IF n = 0 THEN { INITIAL_BYTES_SEQUENCE }
         ELSE IF n = 1 THEN { ACK }
         ELSE {}
    [] n = 0 -> { INITIAL_BYTES_SEQUENCE }
                  \cup (IF kind = "any" THEN { REVERSED_BYTES } ELSE {})
    [] n = 1 -> { ACK } \cup (IF kind = "any" THEN { <<1, 12>> } ELSE {})
    [] n = 2 -> { <<2>>, <<3>> } \cup (IF kind = "any" THEN { <<>> } ELSE {})
    [] OTHER -> { <<1, 12>>, <<1, 80>>, <<9, 104>> }
                  \cup (IF kind = "any" THEN { <<>>, <<1>> } ELSE {})

\* requests the owning system may dispatch: a request is the set of first
\* token bytes of the filters that accept it
Requests == { {}, {2}, {2, 3} }

VARIABLES
  net,                \* the worker behind every connection: "off", "ok", "any",
                      \* "raw"
  threaded,           \* start(threaded=...): does the event loop run in a
                      \* thread of its own, beside the caller of send_update
  disp,               \* the send_update in progress on the caller's thread:
                      \* its request, its place in the loop over the groups
  receive_block_size, \* self.receive_block_size
  requests,           \* self.requests: conn -> [msg_len_received, left, received]
  responses,          \* self.responses: conn -> [requests]
  waiting_for_init,   \* self.waiting_for_init: conn -> initializer (its step)
  handlers,           \* self.handlers: conn -> handler entity
  virtual_groups,     \* self.virtual_groups: filter -> [handlers], insertion order
  hload,              \* Handler.load of every handler entity
  hfilter,            \* Handler.filter of every handler entity
  sock,               \* every socket: "new", "open", "failed" (closed by the
                      \* server), "gone" and "failed_gone" (after DISCONNECT)
  wire,               \* bytes sent by the worker and not read yet
  sentq,              \* payloads sent by the worker whose frame is not completed
  emits,              \* how often the frame pending on a connection was emitted
  ev                  \* what the last callback invocation did

vars == << net, threaded, disp, receive_block_size, requests, responses,
           waiting_for_init, handlers,
           virtual_groups, hload, hfilter, sock, wire, sentq, emits, ev >>

\* ---------------------------------------------------------------- helpers
Min2(a, b) == IF a <= b THEN a ELSE b

Pop(d, c) == [x \in (DOMAIN d) \ {c} |-> d[x]]

Put(d, c, v) == [x \in (DOMAIN d) \cup {c} |-> IF x = c THEN v ELSE d[x]]

Take(s, k) == SubSeq(s, 1, k)

Drop(s, k) == SubSeq(s, k + 1, Len(s))

\* int.from_bytes(b, 'little')
RECURSIVE FromBytes(_)
FromBytes(b) ==
  IF b = <<>> THEN 0
  ELSE b[1] + 256 * FromBytes(Tail(b))

\* the 4-byte little-endian length prefix a worker puts before a payload
LenPrefix(n) ==
  << n % 256, (n \div 256) % 256, (n \div 65536) % 256, (n \div 16777216) % 256 >>

Frame(p) == LenPrefix(Len(p)) \o p

NoEvent ==
  [ kind |-> "init", conn |-> "", req |-> {}, frame |-> <<>>, head |-> <<>>,
    route |-> "", cb |-> <<>>, nemit |-> 0, picked |-> <<>>, sent |-> <<>>,
    raised |-> "" ]

EmptyMap == [x \in {} |-> 0]

\* no send_update is in progress
Idle ==
  [ active |-> FALSE, req |-> {}, i |-> 0, used |-> 0, picked |-> <<>>,
    sent |-> <<>> ]

\* the handlers listed in the group at position i of virtual_groups
MembersOf(i) ==
  { virtual_groups[i].members[j] : j \in 1..Len(virtual_groups[i].members) }

\* the handlers listed in any group
GroupMembers == UNION { MembersOf(i) : i \in DOMAIN virtual_groups }

\* Filter.__eq__ / __hash__: a Filter is its token
Filter(token) == token

\* Filter.__call__: does the filter accept the request
Accepts(f, request) == f # <<>> /\ f[1] \in request

\* ------------------------------------------------------------------- Init
Init ==
  /\ net \in [Conns -> {"off", "ok", "any", "raw"}]
  /\ threaded \in BOOLEAN
  /\ disp = Idle
  /\ receive_block_size \in 1..MaxBlock
  /\ requests = EmptyMap
  /\ responses = EmptyMap
  /\ waiting_for_init = EmptyMap
  /\ handlers = EmptyMap
  /\ virtual_groups = <<>>
  /\ hload = [c \in Conns |-> NoLoad]
  /\ hfilter = [c \in Conns |-> NoFilter]
  /\ sock = [c \in Conns |-> "new"]
  /\ wire = [c \in Conns |-> <<>>]
  /\ sentq = [c \in Conns |-> <<>>]
  /\ emits = [c \in Conns |-> 0]
  /\ ev = NoEvent

\* ----------------------------------------------------------- conn_handler
conn_handler(c) ==
  /\ net[c] # "off"
  /\ sock[c] = "new"
  /\ handlers' = Put(handlers, c, c)
  /\ hload' = [hload EXCEPT ![c] = NoLoad]
  /\ hfilter' = [hfilter EXCEPT ![c] = NoFilter]
  /\ waiting_for_init' = Put(waiting_for_init, c, 0)
  /\ sock' = [sock EXCEPT ![c] = "open"]
  /\ ev' = [NoEvent EXCEPT !.kind = "connect", !.conn = c]
  /\ UNCHANGED << net, threaded, disp, receive_block_size, requests,
                  responses, virtual_groups, wire, sentq, emits >>

\* -------------------------------------------------------- disconn_handler
\* a disconn_handler that forgets to pop
PopNothing(d, c) == d

\* if conn in d: d.pop(conn)
PopIfPresent(d, c) == IF c \in DOMAIN d THEN Pop(d, c) ELSE d

\* what the connection was doing when it disconnected
Doing(c) ==
  IF c \notin DOMAIN requests THEN "idle"
  ELSE IF requests[c].got THEN "body" ELSE "prefix"

\* the socket after conn.close(): closing a closed socket does nothing
Closed(state) ==
  CASE state = "open" -> "gone"
    [] state = "failed" -> "failed_gone"
    [] OTHER -> state

\* The handler may be invoked again for a connection it has already removed:
\* the three guarded pops do nothing and self.handlers.pop(conn) raises
\* KeyError.
disconn_handler(c) ==
  /\ sock[c] # "new"
  /\ waiting_for_init' = PopIfPresent(waiting_for_init, c)
  /\ requests' = PopIfPresent(requests, c)
  /\ responses' = PopIfPresent(responses, c)
  /\ sock' = [sock EXCEPT ![c] = Closed(@)]
  /\ handlers' = PopIfPresent(handlers, c)
  /\ wire' = [wire EXCEPT ![c] = <<>>]
  /\ sentq' = [sentq EXCEPT ![c] = <<>>]
  /\ emits' = [emits EXCEPT ![c] = 0]
  /\ ev' = [NoEvent EXCEPT !.kind = "disconnect", !.conn = c,
                           !.route = Doing(c),
                           !.raised = IF c \in DOMAIN handlers THEN ""
                                      ELSE "KeyError"]
  /\ UNCHANGED << net, threaded, disp, receive_block_size, virtual_groups,
                  hload, hfilter >>

\* ---------------------------------------------- the worker (environment)
\* the number of messages the worker of connection c has sent
NumSent(c) ==
  (IF c \in DOMAIN waiting_for_init THEN waiting_for_init[c] ELSE 3)
    + Len(sentq[c])

\* the unread bytes at which the worker still sends
Backlog(kind) == IF kind = "any" THEN MaxBacklogAny ELSE MaxBacklogOk

\* the bytes a worker puts on the wire for the message p
OnWire(kind, p) == IF kind = "raw" THEN p ELSE Frame(p)

PeerSend(c, p) ==
  /\ sock[c] = "open"
  /\ p \in WorkerChoices(net[c], NumSent(c))
  /\ Len(sentq[c]) < MaxPending
  /\ Len(wire[c]) <= Backlog(net[c])
  /\ wire' = [wire EXCEPT ![c] = @ \o OnWire(net[c], p)]
  /\ sentq' = [sentq EXCEPT ![c] = Append(@, p)]
  /\ ev' = [NoEvent EXCEPT !.kind = "send", !.conn = c]
  /\ UNCHANGED << net, threaded, disp, receive_block_size, requests,
                  responses, waiting_for_init, handlers, virtual_groups,
                  hload, hfilter, sock, emits >>

\* --------------------------------------- HandlerInitializer.next_step
\* step 0 expects the magic bytes, step 1 the acknowledgement byte, step 2
\* the filter; the result is True (go on), False (failure) or the filter
NextStep(step, body) ==
  CASE step = 0 ->
         IF body = INITIAL_BYTES_SEQUENCE
         THEN [ret |-> "True", step |-> 1, token |-> <<>>]
         ELSE [ret |-> "False", step |-> 0, token |-> <<>>]
    [] step = 1 ->
         IF body = ACK
         THEN [ret |-> "True", step |-> 2, token |-> <<>>]
         ELSE [ret |-> "False", step |-> 1, token |-> <<>>]
    [] OTHER ->
         IF body # <<>>
         THEN [ret |-> "filter", step |-> 2, token |-> body]
         ELSE [ret |-> "False", step |-> 2, token |-> <<>>]

\* a test that takes every result but True for the filter
IsFilterLoose(r) == r.ret # "True"

\* not isinstance(response, bool): the step returned the filter
IsFilter(r) == r.ret = "filter"

\* a set_load that is given the tag byte
HeartbeatLoadTag(body) == body[1]

\* response_body[1] of a heartbeat: the load
HeartbeatLoad(body) == body[2]

\* an admission that throws the other groups away
AdmitAlone(groups, f, h) == << [key |-> f, members |-> <<h>>] >>

\* an admission that lists the handler nowhere
AdmitNowhere(groups, f, h) == groups

\* an insertion that always starts the group anew
AdmitOverwrite(groups, f, h) ==
  IF \A i \in DOMAIN groups : groups[i].key # f
  THEN Append(groups, [key |-> f, members |-> <<h>>])
  ELSE [i \in DOMAIN groups |->
          IF groups[i].key = f
          THEN [groups[i] EXCEPT !.members = <<h>>]
          ELSE groups[i]]

\* the insertion of a handler into the group of its filter
Admit(groups, f, h) ==
  IF \A i \in DOMAIN groups : groups[i].key # f
  THEN Append(groups, [key |-> f, members |-> <<h>>])
  ELSE [i \in DOMAIN groups |->
          IF groups[i].key = f
          THEN [groups[i] EXCEPT !.members = Append(@, h)]
          ELSE groups[i]]

\* --------------------------------------------------------------- response
\* The effect of response(conn, response_body); cbRaises says whether the
\* callback of the owning system raises when it is invoked.
Unchanged(route, raised) ==
  [ wfi |-> waiting_for_init, vg |-> virtual_groups, hfilter |-> hfilter,
    hload |-> hload, sock |-> sock, route |-> route, cb |-> <<>>,
    raised |-> raised ]

\* a test that sends no frame to the handshake
InInitNever(c) == FALSE

\* if conn in self.waiting_for_init
InInit(c) == c \in DOMAIN waiting_for_init

response(c, body, cbRaises) ==
  IF c \notin DOMAIN handlers THEN Unchanged("", "KeyError")
  ELSE LET h == handlers[c] IN
  IF InInit(c) THEN
    LET r == NextStep(waiting_for_init[c], body) IN
    CASE IsFilter(r) ->
           [ Unchanged("init", "") EXCEPT
               !.wfi = Pop(waiting_for_init, c),
               !.vg = Admit(virtual_groups, Filter(r.token), h),
               !.hfilter = [hfilter EXCEPT ![h] = Filter(r.token)] ]
      [] r.ret = "False" ->
           [ Unchanged("init", "") EXCEPT
               !.sock = [sock EXCEPT ![c] = "failed"] ]
      [] OTHER ->
           [ Unchanged("init", "") EXCEPT
               !.wfi = [waiting_for_init EXCEPT ![c] = r.step] ]
  ELSE IF Len(body) = 0 THEN Unchanged("", "IndexError")
  ELSE IF body[1] = HEARTBEAT THEN
    IF Len(body) < 2 THEN Unchanged("heartbeat", "IndexError")
    ELSE [ Unchanged("heartbeat", "") EXCEPT
             !.hload = [hload EXCEPT ![h] = HeartbeatLoad(body)] ]
  ELSE [ Unchanged("callback", IF cbRaises THEN "CallbackError" ELSE "") EXCEPT
           !.cb = << [handler |-> h, body |-> Tail(body)] >> ]

\* ------------------------------------------------------- requests_handler
\* one cell shared by all connections
ReqKeyShared(c) == "A"

\* the key of a connection's cell in self.requests
ReqKey(c) == c

\* a read that always asks for a whole block
RecvArgBlock(left, block) == block

\* the argument of conn.recv for the body of a frame
RecvArg(left, block) == IF left <= block THEN left ELSE block

\* the numbers of bytes conn.recv(n) may return when avail bytes are unread:
\* at least one and at most n; all that was asked for, if there, when the
\* worker is of kind "ok"
RecvSizes(c, n, avail) ==
  IF n = 0 THEN {0}
  ELSE IF net[c] = "any" THEN 1..Min2(n, avail)
  ELSE { Min2(n, avail) }

ReceiveEvent(c) == [NoEvent EXCEPT !.kind = "receive", !.conn = c]

\* conn not in self.requests: the first read of a length prefix
FirstRead(c, k) ==
  LET data == Take(wire[c], k) IN
  /\ wire' = [wire EXCEPT ![c] = Drop(@, k)]
  /\ requests' =
       IF Len(data) = 4
       THEN Put(requests, ReqKey(c),
                [got |-> TRUE, left |-> FromBytes(data), buf |-> <<>>])
       ELSE Put(requests, ReqKey(c),
                [got |-> FALSE, left |-> 4 - Len(data), buf |-> data])
  /\ ev' = ReceiveEvent(c)
  /\ UNCHANGED << responses, waiting_for_init, handlers, virtual_groups,
                  hload, hfilter, sock, sentq, emits >>

\* the length prefix has not been received fully yet
PrefixRead(c, k) ==
  LET cell == requests[ReqKey(c)]
      received == Take(wire[c], k)
  IN
  /\ wire' = [wire EXCEPT ![c] = Drop(@, k)]
  /\ IF cell.left - Len(received) <= 0
     THEN \* int.from_bytes(request_cell[2], 'little') + received: int + bytes
          /\ requests' = requests
          /\ ev' = [ReceiveEvent(c) EXCEPT !.raised = "TypeError"]
     ELSE /\ requests' = Put(requests, ReqKey(c),
                             [cell EXCEPT !.buf = @ \o received,
                                          !.left = @ - Len(received)])
          /\ ev' = ReceiveEvent(c)
  /\ UNCHANGED << responses, waiting_for_init, handlers, virtual_groups,
                  hload, hfilter, sock, sentq, emits >>

\* the length is known: a read of the body
BodyRead(c, k, cbRaises) ==
  LET cell == requests[ReqKey(c)]
      request == Take(wire[c], k)
      cell2 == [cell EXCEPT !.buf = @ \o request, !.left = @ - Len(request)]
  IN
  /\ wire' = [wire EXCEPT ![c] = Drop(@, k)]
  /\ IF cell2.left <= 0
     THEN LET r == response(c, cell2.buf, cbRaises)
              n == Min2(emits[c] + 1, 2)
          IN
          /\ waiting_for_init' = r.wfi
          /\ virtual_groups' = r.vg
          /\ hfilter' = r.hfilter
          /\ hload' = r.hload
          /\ sock' = r.sock
          /\ ev' = [ReceiveEvent(c) EXCEPT
                      !.frame = << cell2.buf >>,
                      !.head = IF sentq[c] = <<>> THEN <<>>
                               ELSE << Head(sentq[c]) >>,
                      !.route = r.route, !.cb = r.cb, !.nemit = n,
                      !.raised = r.raised]
          /\ IF r.raised = ""
             THEN /\ requests' = Pop(requests, ReqKey(c))
                  /\ sentq' = [sentq EXCEPT
                                 ![c] = IF @ = <<>> THEN @ ELSE Tail(@)]
                  /\ emits' = [emits EXCEPT ![c] = 0]
             ELSE /\ requests' = Put(requests, ReqKey(c), cell2)
                  /\ sentq' = sentq
                  /\ emits' = [emits EXCEPT ![c] = n]
     ELSE /\ requests' = Put(requests, ReqKey(c), cell2)
          /\ ev' = ReceiveEvent(c)
          /\ UNCHANGED << waiting_for_init, virtual_groups, hload, hfilter,
                          sock, sentq, emits >>
  /\ UNCHANGED << responses, handlers >>

requests_handler(c) ==
  /\ sock[c] = "open"
  /\ c \in DOMAIN handlers
  /\ wire[c] # <<>>
  /\ IF ReqKey(c) \notin DOMAIN requests
     THEN \E k \in RecvSizes(c, 4, Len(wire[c])) : FirstRead(c, k)
     ELSE IF ~requests[ReqKey(c)].got
     THEN \E k \in RecvSizes(c, requests[ReqKey(c)].left, Len(wire[c])) :
            PrefixRead(c, k)
     ELSE \E k \in RecvSizes(c, RecvArg(requests[ReqKey(c)].left,
                                     receive_block_size), Len(wire[c])) :
            \E cbRaises \in BOOLEAN : BodyRead(c, k, cbRaises)
  /\ UNCHANGED << net, threaded, disp, receive_block_size >>

\* ------------------------------------------------------------ send_update
\* min(handlers, key=lambda _handler: _handler.load): the first handler of
\* the least load; comparing an unset load raises TypeError
RECURSIVE MinFold(_, _, _)
MinFold(members, i, best) ==
  IF i > Len(members) THEN [h |-> best, raised |-> ""]
  ELSE IF hload[members[i]] = NoLoad \/ hload[best] = NoLoad
  THEN [h |-> best, raised |-> "TypeError"]
  ELSE MinFold(members, i + 1,
               IF hload[members[i]] < hload[best] THEN members[i] ELSE best)

MinByLoad(members) ==
  IF Len(members) = 0 THEN [h |-> "", raised |-> "ValueError"]
  ELSE MinFold(members, 2, members[1])

\* Handler.send: a write on a socket that was closed raises OSError
SendRaises(h) == sock[h] # "open"

\* a test that lets every group through
GroupAcceptsAny(i, request) == TRUE

\* if virtual_group_filter(request): the test of the group at position i
GroupAccepts(i, request) == Accepts(virtual_groups[i].key, request)

\* the body of the loop for the group at position i; picked is the sequence
\* of handlers selected so far, sent of those written to
GroupStep(i, request, picked, sent) ==
  IF ~GroupAccepts(i, request)
  THEN [picked |-> picked, sent |-> sent, raised |-> ""]
  ELSE LET m == MinByLoad(virtual_groups[i].members) IN
       IF m.raised # ""
       THEN [picked |-> picked, sent |-> sent, raised |-> m.raised]
       ELSE IF SendRaises(m.h)
       THEN [picked |-> Append(picked, m.h), sent |-> sent,
             raised |-> "OSError"]
       ELSE [picked |-> Append(picked, m.h), sent |-> Append(sent, m.h),
             raised |-> ""]

\* the loop over self.virtual_groups.items() from position i on
RECURSIVE DispatchFrom(_, _, _, _)
DispatchFrom(i, request, picked, sent) ==
  IF i > Len(virtual_groups)
  THEN [picked |-> picked, sent |-> sent, raised |-> ""]
  ELSE LET g == GroupStep(i, request, picked, sent) IN
       IF g.raised # "" THEN g
       ELSE DispatchFrom(i + 1, request, g.picked, g.sent)

DispatchEvent(request, d) ==
  [NoEvent EXCEPT !.kind = "dispatch", !.req = request, !.picked = d.picked,
                  !.sent = d.sent, !.raised = d.raised]

\* send_update called from a callback of the loop, or with the loop not
\* started in a thread: the whole loop runs between two events
SendUpdateWhole(request) ==
  /\ ev' = DispatchEvent(request, DispatchFrom(1, request, <<>>, <<>>))
  /\ disp' = disp

\* send_update on the caller's thread beside the event loop.  The call
\* creates the iterator of self.virtual_groups.items(), which notes the size
\* of the dictionary; every later step is one turn of the loop: the
\* iterator raises RuntimeError when the size of the dictionary is not the
\* one noted, ends the loop after the last group, and else the body runs for
\* the next group.  The callbacks of the loop run between the steps.
SendUpdateBegin(request) ==
  /\ disp' = [ active |-> TRUE, req |-> request, i |-> 1,
               used |-> Len(virtual_groups), picked |-> <<>>, sent |-> <<>> ]
  /\ ev' = [NoEvent EXCEPT !.kind = "dispatching", !.req = request]

SendUpdateTurn ==
  IF Len(virtual_groups) # disp.used
  THEN /\ disp' = Idle
       /\ ev' = DispatchEvent(disp.req, [picked |-> disp.picked,
                                         sent |-> disp.sent,
                                         raised |-> "RuntimeError"])
  ELSE IF disp.i > Len(virtual_groups)
  THEN /\ disp' = Idle
       /\ ev' = DispatchEvent(disp.req, [picked |-> disp.picked,
                                         sent |-> disp.sent, raised |-> ""])
  ELSE LET g == GroupStep(disp.i, disp.req, disp.picked, disp.sent) IN
       IF g.raised # ""
       THEN /\ disp' = Idle
            /\ ev' = DispatchEvent(disp.req, g)
       ELSE /\ disp' = [disp EXCEPT !.i = @ + 1, !.picked = g.picked,
                                    !.sent = g.sent]
            /\ ev' = [NoEvent EXCEPT !.kind = "dispatching",
                                     !.req = disp.req]

send_update(request) ==
  /\ IF ~threaded THEN SendUpdateWhole(request)
     ELSE IF ~disp.active THEN SendUpdateBegin(request)
     ELSE request = disp.req /\ SendUpdateTurn
  /\ UNCHANGED << net, threaded, receive_block_size, requests, responses,
                  waiting_for_init, handlers, virtual_groups, hload, hfilter,
                  sock, wire, sentq, emits >>

\* ------------------------------------------------------------------- Next
Next ==
  \/ \E c \in Conns : conn_handler(c)
  \/ \E c \in Conns : requests_handler(c)
  \/ \E c \in Conns : disconn_handler(c)
  \/ \E request \in Requests : send_update(request)
  \/ \E c \in Conns : \E p \in WorkerChoices(net[c], NumSent(c)) : PeerSend(c, p)

Spec == Init /\ [][Next]_vars

\* one worker of kind "any"
InitOne ==
  Init /\ ~threaded /\ net = [c \in Conns |-> IF c = "A" THEN "any" ELSE "off"]
SpecOne == InitOne /\ [][Next]_vars

\* two workers of kind "ok", read in blocks of the greatest size
InitTwo ==
  /\ Init
  /\ ~threaded
  /\ receive_block_size = MaxBlock
  /\ net = [c \in Conns |-> "ok"]
SpecTwo == InitTwo /\ [][Next]_vars

\* two workers of kind "raw"
InitRaw == Init /\ ~threaded /\ net = [c \in Conns |-> "raw"]
SpecRaw == InitRaw /\ [][Next]_vars

\* the loop in a thread of its own, one worker of kind "ok"
InitThreaded ==
  Init /\ threaded /\ net = [c \in Conns |-> IF c = "A" THEN "ok" ELSE "off"]
SpecThreaded == InitThreaded /\ [][Next]_vars

\* one worker of kind "any", and the multiplexer delivers a RECEIVE event for
\* a connection as long as the connection has unread bytes
ReceiveDelivered == \A c \in Conns : WF_vars(requests_handler(c))
SpecLive == InitOne /\ [][Next]_vars /\ ReceiveDelivered

\* ================================================================= claims

\* C1: for every payload and every split of the 4-byte prefix and of the
\* payload over RECEIVE events, exactly one frame is emitted for a message
\* and its body is the payload sent: once all bytes of a connection have
\* been read, every message sent on it has been emitted, and every emitted
\* body is the oldest payload not completed yet, emitted for the first time.
C1_ExactlyOneFrame ==
  /\ \A c \in Conns :
       (sock[c] = "open" /\ wire[c] = <<>>) =>
         \/ sentq[c] = <<>>
         \/ Len(sentq[c]) = 1 /\ emits[c] >= 1
  /\ (ev.kind = "receive" /\ ev.frame # <<>>) =>
       (ev.frame = ev.head /\ ev.nemit = 1)

\* C2: a dispatch writes the request to exactly one handler of every group
\* whose filter accepts it, a handler of least load in its group, and to no
\* handler of a group whose filter rejects it.
LoadLeq(a, b) ==
  hload[a] # NoLoad /\ hload[b] # NoLoad /\ hload[a] <= hload[b]

C2_DispatchLeastLoaded ==
  ev.kind = "dispatch" =>
    \A i \in DOMAIN virtual_groups :
      LET written == { j \in DOMAIN ev.sent : ev.sent[j] \in MembersOf(i) } IN
      IF Accepts(virtual_groups[i].key, ev.req)
      THEN /\ Cardinality(written) = 1
           /\ \A j \in written : \A h \in MembersOf(i) \ { ev.sent[j] } :
                LoadLeq(ev.sent[j], h)
      ELSE written = {}

\* C3: an admitted handler is a member of a group exactly while its
\* connection is connected, and no dispatch selects a handler whose
\* connection is not open.
C3_MemberWhileConnected ==
  /\ \A c \in Conns :
       hfilter[c] # NoFilter => (c \in GroupMembers <=> c \in DOMAIN handlers)
  /\ ev.kind = "dispatch" =>
       \A j \in DOMAIN ev.picked : sock[ev.picked[j]] = "open"

\* C4: a handler whose handshake completed with filter F is listed exactly
\* once in the one group keyed by F and in no other group, its own filter is
\* F, and nothing but admitted handlers is listed in a group.
Occurrences(h, i) ==
  Cardinality({ j \in DOMAIN virtual_groups[i].members :
                  virtual_groups[i].members[j] = h })

C4_InExactlyItsGroup ==
  /\ \A c \in Conns :
       hfilter[c] # NoFilter =>
         /\ \E i \in DOMAIN virtual_groups :
              virtual_groups[i].key = hfilter[c] /\ Occurrences(c, i) = 1
         /\ \A i \in DOMAIN virtual_groups :
              virtual_groups[i].key # hfilter[c] => Occurrences(c, i) = 0
  /\ \A i, j \in DOMAIN virtual_groups :
       virtual_groups[i].key = virtual_groups[j].key => i = j
  /\ \A c \in GroupMembers : hfilter[c] # NoFilter
  /\ ( /\ ev.kind = "receive"
       /\ ev.route = "init"
       /\ ev.conn \in DOMAIN handlers
       /\ ev.conn \notin DOMAIN waiting_for_init ) =>
       hfilter[ev.conn] = Filter(ev.frame[1])

\* two connections were admitted with the same filter
C4_Witness ==
  \E c, d \in Conns :
    /\ c # d
    /\ hfilter[c] # NoFilter
    /\ hfilter[c] = hfilter[d]
    /\ \E i \in DOMAIN virtual_groups : MembersOf(i) = {c, d}

\* C5: a handshake step that fails closes the connection and does not admit
\* its handler, and the handler of a connection whose handshake failed is in
\* no group and has no filter, whatever happens later.
C5_FailedNeverAdmitted ==
  [][ /\ ( /\ ev'.kind = "receive"
           /\ ev'.frame # <<>>
           /\ ev'.conn \in DOMAIN waiting_for_init
           /\ NextStep(waiting_for_init[ev'.conn], ev'.frame[1]).ret = "False" )
         => ( /\ sock'[ev'.conn] = "failed"
              /\ ev'.conn \notin GroupMembers' )
      /\ \A c \in Conns :
           sock'[c] \in {"failed", "failed_gone"} =>
             (c \notin GroupMembers' /\ hfilter'[c] = NoFilter)
    ]_vars

\* the reversed magic bytes were received as the first frame: the handshake
\* failed and the connection was closed
C5_Witness ==
  /\ ev.kind = "receive"
  /\ ev.frame = << REVERSED_BYTES >>
  /\ ev.route = "init"
  /\ sock[ev.conn] = "failed"
  /\ virtual_groups = <<>>

\* C6: once DISCONNECT was processed for a connection, whatever it was doing,
\* the connection is a key of none of waiting_for_init, requests, responses
\* and handlers.
C6_NoResidue ==
  \A c \in Conns :
    sock[c] \in {"gone", "failed_gone"} =>
      /\ c \notin DOMAIN waiting_for_init
      /\ c \notin DOMAIN requests
      /\ c \notin DOMAIN responses
      /\ c \notin DOMAIN handlers

\* a connection disconnected with a part of a length prefix received
C6_Witness ==
  /\ ev.kind = "disconnect"
  /\ ev.route = "prefix"
  /\ sock[ev.conn] = "gone"

\* C7: a heartbeat frame [1, L] of an admitted connection sets the load of
\* the connection's handler to L, changes no other load, no filter and no
\* group, and invokes no callback; a load is unset or a byte.
C7_HeartbeatSetsLoad ==
  [][ /\ \A c \in Conns : hload'[c] \in {NoLoad} \cup 0..255
      /\ ( /\ ev'.kind = "receive"
           /\ ev'.frame # <<>>
           /\ ev'.conn \in DOMAIN handlers
           /\ ev'.conn \notin DOMAIN waiting_for_init
           /\ Len(ev'.frame[1]) >= 2
           /\ ev'.frame[1][1] = HEARTBEAT )
         => ( /\ hload' = [hload EXCEPT ![ev'.conn] = ev'.frame[1][2]]
              /\ hfilter' = hfilter
              /\ virtual_groups' = virtual_groups
              /\ ev'.cb = <<>>
              /\ ev'.raised = "" )
    ]_vars

\* a heartbeat overwrote a load while the other handler kept its own
C7_Witness ==
  /\ ev.kind = "receive"
  /\ ev.route = "heartbeat"
  /\ ev.frame = << <<1, 80>> >>
  /\ hload[ev.conn] = 80
  /\ \E d \in Conns \ {ev.conn} : hload[d] = 12

\* C8: a frame of an admitted connection whose first byte is not the
\* heartbeat tag invokes the callback once, with the connection's handler
\* and the payload from index 1 on, changes no load, and is not delivered a
\* second time.
C8_CallbackExactlyOnce ==
  (ev.kind = "receive" /\ ev.route = "callback") =>
    /\ Len(ev.cb) = 1
    /\ ev.cb[1].handler = ev.conn
    /\ ev.cb[1].body = Tail(ev.frame[1])
    /\ ev.nemit = 1

\* C9: a RECEIVE event of one connection leaves the pending frame, the unread
\* bytes and the pending payloads of every other connection as they were,
\* and a frame it emits is the oldest payload sent on its own connection
\* that is not completed yet.
SameCell(d) ==
  /\ (d \in DOMAIN requests) <=> (d \in DOMAIN requests')
  /\ d \in DOMAIN requests => requests'[d] = requests[d]

C10_CallbackFailureContained ==
  (ev.kind = "receive" /\ ev.cb # <<>>) =>
    (ev.raised = "" /\ ev.conn \notin DOMAIN requests)

\* C12: a dispatch of a request that the filter of no group accepts (there
\* may be no group at all) writes to no handler, raises nothing and leaves
\* handlers, groups, loads, filters, pending frames and handshake sessions
\* as they were.
C12_UnmatchedDropped ==
  [][ ( /\ ev'.kind = "dispatch"
        /\ \A i \in DOMAIN virtual_groups :
             ~Accepts(virtual_groups[i].key, ev'.req) )
      => ( /\ ev'.sent = <<>>
           /\ ev'.picked = <<>>
           /\ ev'.raised = ""
           /\ UNCHANGED << handlers, virtual_groups, hload, hfilter, requests,
                           responses, waiting_for_init, sock >> )
    ]_vars

\* a request was dispatched that the only group, which has a member whose
\* connection is open, does not accept
C12_Witness ==
  /\ ev.kind = "dispatch"
  /\ ev.req # {}
  /\ ev.sent = <<>>
  /\ Len(virtual_groups) = 1
  /\ ~Accepts(virtual_groups[1].key, ev.req)
  /\ \E c \in MembersOf(1) : sock[c] = "open"

\* C15: the bytes accumulated for a pending frame never exceed its target,
\* for every size of the chunks read and every receive_block_size: while
\* the length prefix is awaited the bytes held and the bytes left make 4,
\* while the body is awaited they make the announced length, the length of
\* the oldest payload not completed, and the bytes left are never negative.
C15_NeverOverTarget ==
  \A c \in DOMAIN requests :
    IF requests[c].got
    THEN /\ requests[c].left >= 0
         /\ sentq[c] # <<>>
         /\ Len(requests[c].buf) + requests[c].left = Len(Head(sentq[c]))
    ELSE /\ requests[c].left >= 1
         /\ Len(requests[c].buf) + requests[c].left = 4

\* a body of four bytes is being read a byte at a time: two bytes are held,
\* two are left and unread
C15_Witness ==
  \E c \in DOMAIN requests :
    /\ requests[c].got
    /\ Len(requests[c].buf) = 2
    /\ requests[c].left = 2
    /\ receive_block_size = 1
    /\ Len(wire[c]) = 2

\* C17: the handshake session of a connection is destroyed when the
\* handshake ends: a connection whose handler was admitted, and a connection
\* that was closed by a failing step, has no entry in waiting_for_init.
C17_SessionDestroyed ==
  \A c \in Conns :
    (hfilter[c] # NoFilter \/ sock[c] = "failed") =>
      c \notin DOMAIN waiting_for_init

\* C14: every connection known to the registry, from CONNECT until
\* DISCONNECT, is in exactly one of the states handshaking (it has a session
\* in waiting_for_init) and admitted (its handler has a filter and is listed
\* in a group): never in both and never in neither, a connection closed by
\* a failed handshake step included.
Handshaking(c) == c \in DOMAIN waiting_for_init

Admitted(c) == hfilter[c] # NoFilter /\ c \in GroupMembers

C14_HandshakingXorAdmitted ==
  \A c \in DOMAIN handlers :
    /\ Handshaking(c) \/ Admitted(c)
    /\ ~(Handshaking(c) /\ Admitted(c))
    /\ Handshaking(c) => (hfilter[c] = NoFilter /\ c \notin GroupMembers)

\* a connection whose handshake failed at the second step is still known:
\* it has its session and is not admitted
C14_Witness ==
  \E c \in DOMAIN handlers :
    /\ sock[c] = "failed"
    /\ waiting_for_init[c] = 1
    /\ ~Admitted(c)

\* C20: the set of group keys only grows: no step removes a key; a key is
\* added only by the step that admits the first handler with that filter,
\* every admission leaves the filter of the admitted handler a key, and
\* every key is the filter of a handler that completed the handshake.
GroupKeys(groups) == { groups[i].key : i \in DOMAIN groups }

C20_KeysOnlyGrow ==
  [][ /\ GroupKeys(virtual_groups) \subseteq GroupKeys(virtual_groups')
      /\ \A f \in GroupKeys(virtual_groups') \ GroupKeys(virtual_groups) :
           /\ ev'.kind = "receive"
           /\ ev'.route = "init"
           /\ hfilter[ev'.conn] = NoFilter
           /\ hfilter'[ev'.conn] = f
           /\ \A c \in Conns : hfilter[c] # f
      /\ \A c \in Conns :
           hfilter'[c] # hfilter[c] =>
             ( /\ hfilter'[c] \in GroupKeys(virtual_groups')
               /\ (hfilter'[c] \in GroupKeys(virtual_groups) <=>
                    \E d \in Conns : hfilter[d] = hfilter'[c]) )
      /\ \A f \in GroupKeys(virtual_groups') :
           \E c \in Conns : hfilter'[c] = f
    ]_vars

\* two keys exist, the handler admitted first has disconnected and the key
\* of its filter is still there
C20_Witness ==
  /\ Len(virtual_groups) = 2
  /\ \E c \in MembersOf(1) : sock[c] = "gone"
  /\ \E d \in MembersOf(2) : sock[d] = "open"

\* C19: an unset load counts as the greatest load: a dispatch to an
\* accepting group that has handlers of unset load does not raise for
\* comparing loads, and when the group has a handler of known load too, the
\* handler it selects in that group has the least known load.
KnownIn(i) == { h \in MembersOf(i) : hload[h] # NoLoad }

C19_UnsetLoadIsMaximal ==
  ev.kind = "dispatch" =>
    \A i \in DOMAIN virtual_groups :
      ( /\ Accepts(virtual_groups[i].key, ev.req)
        /\ KnownIn(i) # MembersOf(i) ) =>
        /\ ev.raised # "TypeError"
        /\ (ev.raised = "" /\ KnownIn(i) # {}) =>
             \E j \in DOMAIN ev.picked :
               /\ ev.picked[j] \in KnownIn(i)
               /\ \A h \in KnownIn(i) : hload[ev.picked[j]] <= hload[h]

\* C18: when the bytes left of a pending frame reach zero the payload is
\* emitted and the pending frame is reset: no pending frame stays with its
\* length known and nothing left to read, an emission leaves its connection
\* without a pending frame, and the frames of a connection are emitted in
\* the order sent: an emitted body is the oldest payload not emitted yet.
C18_EmitAndReset ==
  /\ \A c \in DOMAIN requests :
       requests[c].got => requests[c].left > 0
  /\ (ev.kind = "receive" /\ ev.frame # <<>>) =>
       (ev.conn \notin DOMAIN requests /\ ev.frame = ev.head)

\* C13: the DISCONNECT handler is idempotent: invoked again for a connection
\* it has already removed, or for a connection that is in some of the maps
\* only, it raises nothing and leaves every map as it was after the first
\* invocation.
C13_DisconnectIdempotent ==
  /\ ev.kind = "disconnect" => ev.raised = ""
  /\ \A c \in Conns :
       sock[c] \in {"gone", "failed_gone"} =>
         /\ c \notin DOMAIN waiting_for_init
         /\ c \notin DOMAIN requests
         /\ c \notin DOMAIN handlers

\* C16: the bytes a worker sends before it is admitted are taken by the
\* handshake and not by the frame reassembler: for a worker that sends the
\* magic bytes and the acknowledgement byte as they are, no pending frame
\* is made of them, and once they are read the session has taken one step
\* for each of the two.
C16_HandshakeNotFramed ==
  \A c \in Conns :
    (net[c] = "raw" /\ c \in DOMAIN waiting_for_init) =>
      /\ c \notin DOMAIN requests
      /\ wire[c] = <<>> => waiting_for_init[c] = Len(sentq[c])

\* C11: a dispatch on the caller's thread excludes the callbacks of the
\* event loop: while it iterates, no callback changes a group or a load,
\* and no dispatch fails because the registry changed under its iteration.
C11_DispatchExcludesLoop ==
  [][ /\ disp.active => (virtual_groups' = virtual_groups /\ hload' = hload)
      /\ ev'.kind = "dispatch" => ev'.raised # "RuntimeError"
    ]_vars

\* C21: a completed frame of a connection that has a session in
\* waiting_for_init is given to the handshake only, whatever its first byte
\* is: it changes no load and invokes no callback, and so does the frame
\* that completes the handshake.
C21_NoClassifyInHandshake ==
  [][ ( /\ ev'.kind = "receive"
        /\ ev'.frame # <<>>
        /\ ev'.conn \in DOMAIN waiting_for_init )
      => ( /\ ev'.route = "init"
           /\ ev'.cb = <<>>
           /\ hload' = hload )
    ]_vars

\* a frame with the heartbeat tag and a load arrived as the second message
\* of a handshake: the handshake failed and no load was set
C21_Witness ==
  /\ ev.kind = "receive"
  /\ ev.frame = << <<1, 12>> >>
  /\ ev.route = "init"
  /\ sock[ev.conn] = "failed"
  /\ hload[ev.conn] = NoLoad

\* C22: the classification of a completed frame of an admitted connection
\* does not fail for lack of bytes: for a frame of no byte and for a frame of
\* one byte the event handler raises nothing and the pending frame of the
\* connection is reset.
C22_ShortFrameClassified ==
  ( /\ ev.kind = "receive"
    /\ ev.frame # <<>>
    /\ ev.route # "init"
    /\ ev.cb = <<>> ) =>
    (ev.raised = "" /\ ev.conn \notin DOMAIN requests)

\* C23: a message that a connected worker has sent whole is emitted after
\* finitely many RECEIVE events, when RECEIVE events keep being delivered
\* while bytes are unread: a connection with a payload not completed leads
\* to an emission of a frame on it, unless the connection is closed first.
Emitted(c) == ev.kind = "receive" /\ ev.conn = c /\ ev.frame # <<>>

C23_EventuallyEmitted ==
  \A c \in Conns :
    (sock[c] = "open" /\ sentq[c] # <<>>) ~> (sock[c] # "open" \/ Emitted(c))

====
